---- MODULE Spec2Model ----
(***************************************************************************)
(* Model of eth/protocols/eth/protocol.go: the message registry, the       *)
(* HashOrNumber union codec, the two Unpack projections, the packet        *)
(* catalogue (Name/Kind) and the eth/66 request-id wrappers.               *)
(*                                                                         *)
(* A uint64 is kept as its 8 big-endian bytes, a common.Hash as its 32     *)
(* bytes, an RLP stream as the sequence of bytes still to be read.         *)
(***************************************************************************)
EXTENDS Integers, Sequences, FiniteSets, TLC

VARIABLES
    pc,      \* the step the run is at
    hn,      \* the HashOrNumber receiver
    w,       \* the bytes EncodeRLP wrote to its io.Writer
    err,     \* the error the last codec call returned ("nil" for none)
    src,     \* the value that was encoded into w
    in,      \* the bytes the last DecodeRLP read
    pre,     \* the receiver as it was before the last DecodeRLP
    ann,     \* a NewBlockHashesPacket
    bodies,  \* a BlockBodiesPacket
    out,     \* what the last Unpack returned
    pkt,     \* an eth/66 wrapper value
    ret      \* what the last registry or catalogue operation returned

vars == <<pc, hn, w, err, src, in, pre, ann, bodies, out, pkt, ret>>

(***************************************************************************)
(* Bounds of the model.                                                    *)
(***************************************************************************)
\* longest payload that follows the first byte of a decoded blob
MaxPayload == 57
\* longest announcement batch / block body batch
MaxBatch == 3

(***************************************************************************)
(* Bytes, hashes and 64-bit numbers.                                       *)
(***************************************************************************)
HashLength == 32

Rep(b, n) == [i \in 1..n |-> b]

\* common.Hash{} : the zero hash
ZeroHash == Rep(0, HashLength)

HashA == [i \in 1..HashLength |-> i]
HashFF == Rep(255, HashLength)
HashLow == [i \in 1..HashLength |-> IF i = HashLength THEN 1 ELSE 0]

\* a uint64 as its 8 big-endian bytes, built from its significant bytes
U64(s) == Rep(0, 8 - Len(s)) \o s

Zero64 == U64(<<>>)

RECURSIVE StripZeros(_)
StripZeros(s) == IF s = <<>> \/ s[1] # 0 THEN s ELSE StripZeros(Tail(s))

Hashes == {ZeroHash, HashA, HashFF, HashLow}

Numbers == { Zero64, U64(<<1>>), U64(<<127>>), U64(<<128>>), U64(<<255>>),
             U64(<<1, 0>>), U64(<<1, 0, 0, 0, 0>>),
             U64(<<1, 0, 0, 0, 0, 0, 0, 0>>), Rep(255, 8) }

\* type HashOrNumber struct { Hash common.Hash; Number uint64 }
HashOrNumber == [Hash : Hashes, Number : Numbers]

(***************************************************************************)
(* The generic rlp codec, as far as the union codec uses it.               *)
(***************************************************************************)
\* rlp.Encode of a uint64
rlpEncodeUint(n) ==
    LET s == StripZeros(n) IN
    IF s = <<>> THEN <<128>>
    ELSE IF Len(s) = 1 /\ s[1] < 128 THEN s
    ELSE <<128 + Len(s)>> \o s

\* rlp.Encode of a [32]byte array
rlpEncodeHash(h) == <<128 + Len(h)>> \o h

\* big-endian value of a byte string
RECURSIVE BigEndian(_)
BigEndian(s) == IF s = <<>> THEN 0
                ELSE BigEndian(SubSeq(s, 1, Len(s) - 1)) * 256 + s[Len(s)]

\* Stream.readUint used for the size of a long string or list
readSize(buf, kind, n) ==
    IF Len(buf) < 1 + n
    THEN [kind |-> kind, size |-> 0, hdr |-> Len(buf), err |-> "unexpected EOF"]
    ELSE LET s == SubSeq(buf, 2, 1 + n) IN
         IF n > 1 /\ s[1] = 0
         THEN [kind |-> kind, size |-> 0, hdr |-> 1 + n, err |-> "non-canonical size"]
         ELSE IF BigEndian(s) < 56
         THEN [kind |-> kind, size |-> BigEndian(s), hdr |-> 1 + n,
               err |-> "non-canonical size"]
         ELSE [kind |-> kind, size |-> BigEndian(s), hdr |-> 1 + n, err |-> "nil"]

\* Stream.readKind : the type and size tag of the next value
readKind(buf) ==
    LET b == buf[1] IN
    IF b < 128 THEN [kind |-> "Byte", size |-> 0, hdr |-> 1, err |-> "nil"]
    ELSE IF b < 184 THEN [kind |-> "String", size |-> b - 128, hdr |-> 1, err |-> "nil"]
    ELSE IF b < 192 THEN readSize(buf, "String", b - 183)
    ELSE IF b < 248 THEN [kind |-> "List", size |-> b - 192, hdr |-> 1, err |-> "nil"]
    ELSE readSize(buf, "List", b - 247)

\* Stream.Kind : readKind, then the size checked against the input left
StreamKind(buf) ==
    IF buf = <<>> THEN [kind |-> "Byte", size |-> 0, hdr |-> 0, err |-> "EOF"]
    ELSE LET k == readKind(buf) IN
         IF k.err = "nil" /\ k.size > Len(buf) - k.hdr
         THEN [k EXCEPT !.err = "value size exceeds available input length"]
         ELSE k

\* the content bytes of the value whose tag is k
Content(buf, k) ==
    IF k.kind = "Byte" THEN <<buf[1]>> ELSE SubSeq(buf, k.hdr + 1, k.hdr + k.size)

\* Stream.Decode into a [32]byte array
rlpDecodeHash(buf) ==
    LET k == StreamKind(buf) IN
    IF k.err # "nil" THEN [err |-> k.err, val |-> ZeroHash]
    ELSE IF k.kind = "Byte" THEN [err |-> "input string too short", val |-> ZeroHash]
    ELSE IF k.kind = "List" THEN [err |-> "expected input string or byte", val |-> ZeroHash]
    ELSE IF HashLength < k.size THEN [err |-> "input string too long", val |-> ZeroHash]
    ELSE IF HashLength > k.size THEN [err |-> "input string too short", val |-> ZeroHash]
    ELSE [err |-> "nil", val |-> Content(buf, k)]

\* Stream.Decode into a uint64
rlpDecodeUint(buf) ==
    LET k == StreamKind(buf) IN
    IF k.err # "nil" THEN [err |-> k.err, val |-> Zero64]
    ELSE IF k.kind = "Byte"
    THEN IF buf[1] = 0 THEN [err |-> "non-canonical integer", val |-> Zero64]
         ELSE [err |-> "nil", val |-> U64(<<buf[1]>>)]
    ELSE IF k.kind = "List" THEN [err |-> "expected input string or byte", val |-> Zero64]
    ELSE IF k.size > 8 THEN [err |-> "uint overflow", val |-> Zero64]
    ELSE LET s == Content(buf, k) IN
         IF k.size > 1 /\ s[1] = 0 THEN [err |-> "non-canonical integer", val |-> Zero64]
         ELSE IF k.size = 1 /\ s[1] < 128 THEN [err |-> "non-canonical size", val |-> Zero64]
         ELSE [err |-> "nil", val |-> U64(s)]

(***************************************************************************)
(* The union codec of HashOrNumber.                                        *)
(***************************************************************************)
ErrBoth == "both origin hash and number provided"
ErrSize == "invalid input size for origin"

\* EncodeRLP without the check that the number is zero
EncodeRLP_NoCheck(v) ==
    IF v.Hash = ZeroHash
    THEN [err |-> "nil", w |-> rlpEncodeUint(v.Number)]
    ELSE [err |-> "nil", w |-> rlpEncodeHash(v.Hash)]

\* func (hn *HashOrNumber) EncodeRLP(w io.Writer) error
EncodeRLP(v) ==
    IF v.Hash = ZeroHash
    THEN [err |-> "nil", w |-> rlpEncodeUint(v.Number)]
    ELSE IF v.Number # Zero64
    THEN [err |-> ErrBoth, w |-> <<>>]
    ELSE [err |-> "nil", w |-> rlpEncodeHash(v.Hash)]

\* DecodeRLP with its two branches as parameters: zeroNum says whether the
\* hash branch clears the number, maxNum is the largest size read as a number
DecodeVariant(r, buf, zeroNum, maxNum) ==
    LET k == StreamKind(buf) IN
    IF k.err # "nil" THEN [err |-> k.err, hn |-> r]
    ELSE IF k.size = 32
    THEN LET d == rlpDecodeHash(buf)
             n == IF zeroNum THEN Zero64 ELSE r.Number IN
         IF d.err = "nil" THEN [err |-> "nil", hn |-> [Hash |-> d.val, Number |-> n]]
         ELSE [err |-> d.err, hn |-> [Hash |-> r.Hash, Number |-> n]]
    ELSE IF k.size <= maxNum
    THEN LET d == rlpDecodeUint(buf) IN
         IF d.err = "nil" THEN [err |-> "nil", hn |-> [Hash |-> ZeroHash, Number |-> d.val]]
         ELSE [err |-> d.err, hn |-> [Hash |-> ZeroHash, Number |-> r.Number]]
    ELSE [err |-> ErrSize, hn |-> r]

\* DecodeRLP reading only sizes below 8 as a number
DecodeRLP_Lt8(r, buf) == DecodeVariant(r, buf, TRUE, 7)
\* DecodeRLP reading sizes up to 9 as a number
DecodeRLP_Le9(r, buf) == DecodeVariant(r, buf, TRUE, 9)
\* DecodeRLP whose hash branch leaves the number as it was
DecodeRLP_KeepNumber(r, buf) == DecodeVariant(r, buf, FALSE, 8)

\* func (hn *HashOrNumber) DecodeRLP(s *rlp.Stream) error
\* r is the receiver before the call; the result holds it after the call
DecodeRLP(r, buf) ==
    LET k == StreamKind(buf) IN
    IF k.err # "nil" THEN [err |-> k.err, hn |-> r]
    ELSE IF k.size = 32
    THEN LET cleared == [r EXCEPT !.Number = Zero64]
             d == rlpDecodeHash(buf) IN
         IF d.err = "nil" THEN [err |-> "nil", hn |-> [cleared EXCEPT !.Hash = d.val]]
         ELSE [err |-> d.err, hn |-> cleared]
    ELSE IF k.size <= 8
    THEN LET cleared == [r EXCEPT !.Hash = ZeroHash]
             d == rlpDecodeUint(buf) IN
         IF d.err = "nil" THEN [err |-> "nil", hn |-> [cleared EXCEPT !.Number = d.val]]
         ELSE [err |-> d.err, hn |-> cleared]
    ELSE [err |-> ErrSize, hn |-> r]

(***************************************************************************)
(* The two Unpack projections.                                             *)
(***************************************************************************)
\* an entry of a NewBlockHashesPacket: struct { Hash; Number }
Announcement == [Hash : {HashA, HashFF}, Number : {U64(<<1>>), Rep(255, 8)}]

\* the range loop of NewBlockHashesPacket.Unpack, from entry i on
RECURSIVE HashesLoop(_, _, _, _)
HashesLoop(p, i, hashes, numbers) ==
    IF i > Len(p) THEN [hashes |-> hashes, numbers |-> numbers]
    ELSE HashesLoop(p, i + 1, [hashes EXCEPT ![i] = p[i].Hash],
                              [numbers EXCEPT ![i] = p[i].Number])

\* an Unpack that fills its two slices from each other's field
UnpackHashes_Swapped(p) ==
    [hashes |-> [i \in 1..Len(p) |-> p[i].Number],
     numbers |-> [i \in 1..Len(p) |-> p[i].Hash]]

\* func (p *NewBlockHashesPacket) Unpack() ([]common.Hash, []uint64)
UnpackHashes(p) == HashesLoop(p, 1, Rep(ZeroHash, Len(p)), Rep(Zero64, Len(p)))

\* a nil *BlockBody
NilBody == [nil |-> TRUE]

\* type BlockBody struct { Transactions; Uncles; ExtTransactions; SubManifest }
BlockBody == {
    [Transactions |-> <<>>, Uncles |-> <<>>, ExtTransactions |-> <<>>,
     SubManifest |-> <<>>],
    [Transactions |-> <<"tx1", "tx2">>, Uncles |-> <<>>,
     ExtTransactions |-> <<"etx1">>, SubManifest |-> <<>>],
    [Transactions |-> <<"tx3">>, Uncles |-> <<"uncle1">>, ExtTransactions |-> <<>>,
     SubManifest |-> <<"sub1", "sub2">>] }

\* the range loop of BlockBodiesPacket.Unpack, from entry i on; reading a
\* field of a nil entry panics
RECURSIVE BodiesLoop(_, _, _)
BodiesLoop(p, i, acc) ==
    IF i > Len(p) THEN acc
    ELSE IF p[i] = NilBody THEN [acc EXCEPT !.panic = TRUE]
    ELSE BodiesLoop(p, i + 1,
           [acc EXCEPT !.txset[i] = p[i].Transactions,
                       !.uncleset[i] = p[i].Uncles,
                       !.etxset[i] = p[i].ExtTransactions,
                       !.manifest[i] = p[i].SubManifest])

\* an Unpack that returns the transactions in place of the cross-shard ones
UnpackBodies_EtxFromTx(p) ==
    IF \E i \in 1..Len(p) : p[i] = NilBody
    THEN BodiesLoop(p, 1, [panic |-> FALSE, txset |-> Rep(<<>>, Len(p)),
                           uncleset |-> Rep(<<>>, Len(p)), etxset |-> Rep(<<>>, Len(p)),
                           manifest |-> Rep(<<>>, Len(p))])
    ELSE
    [panic |-> FALSE,
     txset |-> [i \in 1..Len(p) |-> p[i].Transactions],
     uncleset |-> [i \in 1..Len(p) |-> p[i].Uncles],
     etxset |-> [i \in 1..Len(p) |-> p[i].Transactions],
     manifest |-> [i \in 1..Len(p) |-> p[i].SubManifest]]

\* func (p *BlockBodiesPacket) Unpack() (txset, uncleset, etxset, manifest)
UnpackBodies(p) ==
    BodiesLoop(p, 1, [panic |-> FALSE, txset |-> Rep(<<>>, Len(p)),
                      uncleset |-> Rep(<<>>, Len(p)), etxset |-> Rep(<<>>, Len(p)),
                      manifest |-> Rep(<<>>, Len(p))])

(***************************************************************************)
(* The message registry.                                                   *)
(***************************************************************************)
ETH65 == 65
ETH66 == 66

\* var ProtocolVersions = []uint{ETH66, ETH65}
ProtocolVersions == <<ETH66, ETH65>>

\* protocolLengths with the same count for both versions
protocolLengths_Same == (ETH66 :> 19) @@ (ETH65 :> 19)

\* var protocolLengths = map[uint]uint64{ETH66: 21, ETH65: 19}
protocolLengths == (ETH66 :> 21) @@ (ETH65 :> 19)

StatusMsg == 0
NewBlockHashesMsg == 1
TransactionsMsg == 2
GetBlockHeadersMsg == 3
BlockHeadersMsg == 4
GetBlockBodiesMsg == 5
BlockBodiesMsg == 6
NewBlockMsg == 7
GetNodeDataMsg == 13
NodeDataMsg == 14
GetReceiptsMsg == 15
ReceiptsMsg == 16
NewPooledTransactionHashesMsg == 8
GetPooledTransactionsMsg == 9
PooledTransactionsMsg == 10
\* GetBlockMsg given the code of PooledTransactionsMsg
GetBlockMsg_Reused == PooledTransactionsMsg
GetBlockMsg == 11
PendingEtxsMsg == 17
GetOnePendingEtxsMsg == 18
PendingEtxsRollupMsg == 19
GetOnePendingEtxsRollupMsg == 20

\* the const block of message codes, by name
MsgCodes ==
    [StatusMsg |-> StatusMsg, NewBlockHashesMsg |-> NewBlockHashesMsg,
     TransactionsMsg |-> TransactionsMsg, GetBlockHeadersMsg |-> GetBlockHeadersMsg,
     BlockHeadersMsg |-> BlockHeadersMsg, GetBlockBodiesMsg |-> GetBlockBodiesMsg,
     BlockBodiesMsg |-> BlockBodiesMsg, NewBlockMsg |-> NewBlockMsg,
     GetNodeDataMsg |-> GetNodeDataMsg, NodeDataMsg |-> NodeDataMsg,
     GetReceiptsMsg |-> GetReceiptsMsg, ReceiptsMsg |-> ReceiptsMsg,
     NewPooledTransactionHashesMsg |-> NewPooledTransactionHashesMsg,
     GetPooledTransactionsMsg |-> GetPooledTransactionsMsg,
     PooledTransactionsMsg |-> PooledTransactionsMsg, GetBlockMsg |-> GetBlockMsg,
     PendingEtxsMsg |-> PendingEtxsMsg, GetOnePendingEtxsMsg |-> GetOnePendingEtxsMsg,
     PendingEtxsRollupMsg |-> PendingEtxsRollupMsg,
     GetOnePendingEtxsRollupMsg |-> GetOnePendingEtxsRollupMsg]

\* the registry lookup: the count of a version, and whether a code is below it
Lookup(v, c) ==
    IF v \notin DOMAIN protocolLengths
    THEN [op |-> "Lookup", version |-> v, code |-> c, err |-> "unsupported version",
          length |-> 0, valid |-> FALSE]
    ELSE [op |-> "Lookup", version |-> v, code |-> c, err |-> "nil",
          length |-> protocolLengths[v], valid |-> c < protocolLengths[v]]

(***************************************************************************)
(* The packet catalogue.                                                   *)
(***************************************************************************)
\* the payload types the file declares, the eth/66 wrappers aside
PacketTypes ==
    {"StatusPacket", "NewBlockHashesPacket", "TransactionsPacket",
     "GetBlockHeadersPacket", "BlockHeadersPacket", "NewBlockPacket",
     "GetBlockBodiesPacket", "BlockBodiesPacket", "BlockBodiesRLPPacket",
     "GetNodeDataPacket", "NodeDataPacket", "GetReceiptsPacket", "ReceiptsPacket",
     "ReceiptsRLPPacket", "NewPooledTransactionHashesPacket",
     "GetPooledTransactionsPacket", "PooledTransactionsPacket",
     "PooledTransactionsRLPPacket", "GetBlockPacket", "GetOnePendingEtxsPacket",
     "GetOnePendingEtxsRollupPacket", "PendingEtxsPacket", "PendingEtxsRollupPacket"}

\* the types that hold bytes encoded beforehand
RLPPacketTypes ==
    {"BlockBodiesRLPPacket", "ReceiptsRLPPacket", "PooledTransactionsRLPPacket"}

\* the Name and Kind methods the file declares, by receiver type
Methods ==
    [StatusPacket |-> [Name |-> "Status", Kind |-> StatusMsg],
     NewBlockHashesPacket |-> [Name |-> "NewBlockHashes", Kind |-> NewBlockHashesMsg],
     TransactionsPacket |-> [Name |-> "Transactions", Kind |-> TransactionsMsg],
     GetBlockHeadersPacket |-> [Name |-> "GetBlockHeaders", Kind |-> GetBlockHeadersMsg],
     BlockHeadersPacket |-> [Name |-> "BlockHeaders", Kind |-> BlockHeadersMsg],
     GetBlockBodiesPacket |-> [Name |-> "GetBlockBodies", Kind |-> GetBlockBodiesMsg],
     BlockBodiesPacket |-> [Name |-> "BlockBodies", Kind |-> BlockBodiesMsg],
     NewBlockPacket |-> [Name |-> "NewBlock", Kind |-> NewBlockMsg],
     GetNodeDataPacket |-> [Name |-> "GetNodeData", Kind |-> GetNodeDataMsg],
     NodeDataPacket |-> [Name |-> "NodeData", Kind |-> NodeDataMsg],
     GetReceiptsPacket |-> [Name |-> "GetReceipts", Kind |-> GetReceiptsMsg],
     ReceiptsPacket |-> [Name |-> "Receipts", Kind |-> ReceiptsMsg],
     NewPooledTransactionHashesPacket |->
         [Name |-> "NewPooledTransactionHashes", Kind |-> NewPooledTransactionHashesMsg],
     GetPooledTransactionsPacket |->
         [Name |-> "GetPooledTransactions", Kind |-> GetPooledTransactionsMsg],
     PooledTransactionsPacket |->
         [Name |-> "PooledTransactions", Kind |-> PooledTransactionsMsg],
     GetBlockPacket |-> [Name |-> "GetBlock", Kind |-> GetBlockMsg],
     GetOnePendingEtxsPacket |->
         [Name |-> "GetOnePendingEtxs", Kind |-> GetOnePendingEtxsMsg],
     PendingEtxsPacket |-> [Name |-> "PendingEtxs", Kind |-> PendingEtxsMsg],
     PendingEtxsRollupPacket |->
         [Name |-> "PendingEtxsManifest", Kind |-> PendingEtxsRollupMsg]]

(***************************************************************************)
(* The eth/66 wrappers: each struct as the sequence of its fields, an      *)
(* embedded type being a field named after the type.                       *)
(***************************************************************************)
GetBlockHeadersPacket66 == <<"RequestId", "GetBlockHeadersPacket">>
BlockHeadersPacket66 == <<"RequestId", "BlockHeadersPacket">>
GetBlockBodiesPacket66 == <<"RequestId", "GetBlockBodiesPacket">>
BlockBodiesPacket66 == <<"RequestId", "BlockBodiesPacket">>
BlockBodiesRLPPacket66 == <<"RequestId", "BlockBodiesRLPPacket">>
GetNodeDataPacket66 == <<"RequestId", "GetNodeDataPacket">>
NodeDataPacket66 == <<"RequestId", "NodeDataPacket">>
GetReceiptsPacket66 == <<"RequestId", "GetReceiptsPacket">>
ReceiptsPacket66 == <<"RequestId", "ReceiptsPacket">>
ReceiptsRLPPacket66 == <<"RequestId", "ReceiptsRLPPacket">>
GetPooledTransactionsPacket66 == <<"RequestId", "GetPooledTransactionsPacket">>
PooledTransactionsPacket66 == <<"RequestId", "PooledTransactionsPacket">>
PooledTransactionsRLPPacket66 == <<"RequestId", "PooledTransactionsRLPPacket">>
GetBlockPacket66 == <<"RequestId", "GetBlockPacket">>
GetOnePendingEtxsPacket66 == <<"RequestId", "GetOnePendingEtxsPacket">>
\* GetOnePendingEtxsRollupPacket66 embedding the packet of the other query
GetOnePendingEtxsRollupPacket66_OtherQuery == <<"RequestId", "GetOnePendingEtxsPacket">>
GetOnePendingEtxsRollupPacket66 == <<"RequestId", "GetOnePendingEtxsRollupPacket">>
PendingEtxsPacket66 == <<"RequestId", "PendingEtxsPacket">>
PendingEtxsRollupPacket66 == <<"RequestId", "PendingEtxsRollupPacket">>

\* the wrapper structs, by type name
Wrapper66 ==
    [GetBlockHeadersPacket66 |-> GetBlockHeadersPacket66,
     BlockHeadersPacket66 |-> BlockHeadersPacket66,
     GetBlockBodiesPacket66 |-> GetBlockBodiesPacket66,
     BlockBodiesPacket66 |-> BlockBodiesPacket66,
     BlockBodiesRLPPacket66 |-> BlockBodiesRLPPacket66,
     GetNodeDataPacket66 |-> GetNodeDataPacket66,
     NodeDataPacket66 |-> NodeDataPacket66,
     GetReceiptsPacket66 |-> GetReceiptsPacket66,
     ReceiptsPacket66 |-> ReceiptsPacket66,
     ReceiptsRLPPacket66 |-> ReceiptsRLPPacket66,
     GetPooledTransactionsPacket66 |-> GetPooledTransactionsPacket66,
     PooledTransactionsPacket66 |-> PooledTransactionsPacket66,
     PooledTransactionsRLPPacket66 |-> PooledTransactionsRLPPacket66,
     GetBlockPacket66 |-> GetBlockPacket66,
     GetOnePendingEtxsPacket66 |-> GetOnePendingEtxsPacket66,
     GetOnePendingEtxsRollupPacket66 |-> GetOnePendingEtxsRollupPacket66,
     PendingEtxsPacket66 |-> PendingEtxsPacket66,
     PendingEtxsRollupPacket66 |-> PendingEtxsRollupPacket66]

\* the wrapper that carries each payload type over eth/66
WrapperFor ==
    [GetBlockHeadersPacket |-> "GetBlockHeadersPacket66",
     BlockHeadersPacket |-> "BlockHeadersPacket66",
     GetBlockBodiesPacket |-> "GetBlockBodiesPacket66",
     BlockBodiesPacket |-> "BlockBodiesPacket66",
     BlockBodiesRLPPacket |-> "BlockBodiesRLPPacket66",
     GetNodeDataPacket |-> "GetNodeDataPacket66",
     NodeDataPacket |-> "NodeDataPacket66",
     GetReceiptsPacket |-> "GetReceiptsPacket66",
     ReceiptsPacket |-> "ReceiptsPacket66",
     ReceiptsRLPPacket |-> "ReceiptsRLPPacket66",
     GetPooledTransactionsPacket |-> "GetPooledTransactionsPacket66",
     PooledTransactionsPacket |-> "PooledTransactionsPacket66",
     PooledTransactionsRLPPacket |-> "PooledTransactionsRLPPacket66",
     GetBlockPacket |-> "GetBlockPacket66",
     GetOnePendingEtxsPacket |-> "GetOnePendingEtxsPacket66",
     GetOnePendingEtxsRollupPacket |-> "GetOnePendingEtxsRollupPacket66",
     PendingEtxsPacket |-> "PendingEtxsPacket66",
     PendingEtxsRollupPacket |-> "PendingEtxsRollupPacket66"]

\* the request ids that are tried
RequestIds == {Zero64, U64(<<1>>), Rep(255, 8)}

\* a payload of a type: the type and what it holds
Payloads(t) == [shape : {t}, body : {"body1", "body2"}]

\* the composite literal W{RequestId: R, <embedded>: p} : every field of the
\* struct gets its value, the embedded one as a value of the embedded type
Wrap66(W, R, p) ==
    LET decl == Wrapper66[W] IN
    [type |-> W,
     fields |-> [i \in 1..Len(decl) |->
                   IF decl[i] = "RequestId" THEN R
                   ELSE [shape |-> decl[i], body |-> p.body]]]

\* reading the two fields of a wrapper value back
Unwrap66(x) ==
    LET decl == Wrapper66[x.type]
        idAt == CHOOSE i \in 1..Len(decl) : decl[i] = "RequestId"
        embAt == CHOOSE i \in 1..Len(decl) : decl[i] # "RequestId" IN
    [RequestId |-> x.fields[idAt], payload |-> x.fields[embAt]]

\* the method set of a type: its own methods, or those promoted from the
\* type it embeds
HasMethods(t) ==
    \/ t \in DOMAIN Methods
    \/ t \in DOMAIN Wrapper66 /\ Wrapper66[t][2] \in DOMAIN Methods

MethodsOf(t) == IF t \in DOMAIN Methods THEN Methods[t] ELSE Methods[Wrapper66[t][2]]

\* a value of type t seen as a Packet: its Name() and Kind(), if it is one
Describe(t) ==
    IF HasMethods(t)
    THEN [op |-> "Describe", type |-> t, packet |-> TRUE,
          name |-> MethodsOf(t).Name, kind |-> MethodsOf(t).Kind]
    ELSE [op |-> "Describe", type |-> t, packet |-> FALSE, name |-> "", kind |-> 0]

(***************************************************************************)
(* The inputs that are tried.                                              *)
(***************************************************************************)
\* the first bytes of the blobs: single bytes, every short string, long
\* strings, short and long lists
Headers == {0, 1, 127} \cup (128..185) \cup {192, 200, 201, 224, 225, 247, 248}

\* a first byte h followed by len bytes: f1, then f2 repeated
Blob(h, f1, f2, len) ==
    <<h>> \o (IF len = 0 THEN <<>> ELSE <<f1>> \o Rep(f2, len - 1))

Blobs == { Blob(h, f1, f2, len) :
             h \in Headers, f1 \in {0, 1, 56, 128, 255}, f2 \in {0, 255},
             len \in 0..MaxPayload }

\* the receivers a blob is decoded into
Receivers ==
    { [Hash |-> ZeroHash, Number |-> Zero64], [Hash |-> HashA, Number |-> Zero64],
      [Hash |-> ZeroHash, Number |-> Rep(255, 8)],
      [Hash |-> HashFF, Number |-> U64(<<1>>)] }

Batches(S) == UNION { [1..n -> S] : n \in 0..MaxBatch }

Versions == {64, ETH65, ETH66}
Codes == 0..(GetOnePendingEtxsRollupMsg + 1)

NoRet == [op |-> "none"]
NoPkt == [type |-> "none", fields |-> <<>>]
NoOut == [panic |-> FALSE]

(***************************************************************************)
(* The union codec at work: a value is encoded and the bytes decoded into  *)
(* a receiver, or a blob of a peer is decoded into it.                     *)
(***************************************************************************)
InitCodec ==
    /\ pc = "start"
    /\ hn \in Receivers
    /\ pre = hn
    /\ src = hn
    /\ w = <<>>
    /\ in = <<>>
    /\ err = "nil"
    /\ ann = <<>>
    /\ bodies = <<>>
    /\ out = NoOut
    /\ pkt = NoPkt
    /\ ret = NoRet

Encode ==
    /\ pc = "start"
    /\ \E v \in HashOrNumber :
         /\ src' = v
         /\ w' = EncodeRLP(v).w
         /\ err' = EncodeRLP(v).err
    /\ pc' = "encoded"
    /\ UNCHANGED <<hn, in, pre, ann, bodies, out, pkt, ret>>

DecodeWritten ==
    /\ pc = "encoded"
    /\ err = "nil"
    /\ pre' = hn
    /\ in' = w
    /\ hn' = DecodeRLP(hn, w).hn
    /\ err' = DecodeRLP(hn, w).err
    /\ pc' = "roundtrip"
    /\ UNCHANGED <<w, src, ann, bodies, out, pkt, ret>>

DecodeBlob ==
    /\ pc = "start"
    /\ \E blob \in Blobs :
         /\ in' = blob
         /\ hn' = DecodeRLP(hn, blob).hn
         /\ err' = DecodeRLP(hn, blob).err
    /\ pre' = hn
    /\ pc' = "decoded"
    /\ UNCHANGED <<w, src, ann, bodies, out, pkt, ret>>

NextCodec == Encode \/ DecodeWritten \/ DecodeBlob

SpecCodec == InitCodec /\ [][NextCodec]_vars

(***************************************************************************)
(* The Unpack projections applied to a batch.                              *)
(***************************************************************************)
InitUnpack ==
    /\ pc = "start"
    /\ ann \in Batches(Announcement)
    /\ bodies \in Batches(BlockBody \cup {NilBody})
    /\ out = NoOut
    /\ hn = [Hash |-> ZeroHash, Number |-> Zero64]
    /\ pre = hn
    /\ src = hn
    /\ w = <<>>
    /\ in = <<>>
    /\ err = "nil"
    /\ pkt = NoPkt
    /\ ret = NoRet

UnpackAnnouncements ==
    /\ pc = "start"
    /\ out' = UnpackHashes(ann)
    /\ pc' = "hashes"
    /\ UNCHANGED <<hn, w, err, src, in, pre, ann, bodies, pkt, ret>>

UnpackBlockBodies ==
    /\ pc = "start"
    /\ out' = UnpackBodies(bodies)
    /\ pc' = "bodies"
    /\ UNCHANGED <<hn, w, err, src, in, pre, ann, bodies, pkt, ret>>

NextUnpack == UnpackAnnouncements \/ UnpackBlockBodies

SpecUnpack == InitUnpack /\ [][NextUnpack]_vars

(***************************************************************************)
(* The registry and the catalogue in use.                                  *)
(***************************************************************************)
InitCatalogue ==
    /\ pc = "start"
    /\ pkt = NoPkt
    /\ ret = NoRet
    /\ hn = [Hash |-> ZeroHash, Number |-> Zero64]
    /\ pre = hn
    /\ src = hn
    /\ w = <<>>
    /\ in = <<>>
    /\ err = "nil"
    /\ ann = <<>>
    /\ bodies = <<>>
    /\ out = NoOut

LookupCode ==
    /\ pc = "start"
    /\ \E v \in Versions, c \in Codes : ret' = Lookup(v, c)
    /\ pc' = "looked"
    /\ UNCHANGED <<hn, w, err, src, in, pre, ann, bodies, out, pkt>>

DescribePacket ==
    /\ pc = "start"
    /\ \E t \in PacketTypes \cup DOMAIN Wrapper66 : ret' = Describe(t)
    /\ pc' = "described"
    /\ UNCHANGED <<hn, w, err, src, in, pre, ann, bodies, out, pkt>>

Wrap ==
    /\ pc = "start"
    /\ \E t \in DOMAIN WrapperFor, R \in RequestIds :
         \E p \in Payloads(t) :
           /\ pkt' = Wrap66(WrapperFor[t], R, p)
           /\ ret' = [op |-> "Wrap", RequestId |-> R, payload |-> p]
    /\ pc' = "wrapped"
    /\ UNCHANGED <<hn, w, err, src, in, pre, ann, bodies, out>>

Unwrap ==
    /\ pc = "wrapped"
    /\ ret' = [op |-> "Unwrap", sentId |-> ret.RequestId, sent |-> ret.payload,
               RequestId |-> Unwrap66(pkt).RequestId,
               payload |-> Unwrap66(pkt).payload]
    /\ pc' = "unwrapped"
    /\ UNCHANGED <<hn, w, err, src, in, pre, ann, bodies, out, pkt>>

NextCatalogue == LookupCode \/ DescribePacket \/ Wrap \/ Unwrap

SpecCatalogue == InitCatalogue /\ [][NextCatalogue]_vars

(***************************************************************************)
(* Properties.                                                             *)
(***************************************************************************)
BothSet(v) == v.Hash # ZeroHash /\ v.Number # Zero64

Decoded == pc \in {"decoded", "roundtrip"}

\* C1: a selector that is hash-only, number-only or all-zero encodes without
\* an error, and decoding the bytes written gives a receiver whose hash and
\* number equal the encoded ones, whatever the receiver held before.
C1_RoundTrip ==
    /\ (pc = "encoded" /\ ~BothSet(src)) => err = "nil"
    /\ pc = "roundtrip" =>
         /\ ~BothSet(src)
         /\ err = "nil"
         /\ hn.Hash = src.Hash
         /\ hn.Number = src.Number

C1_Witness ==
    /\ pc = "roundtrip"
    /\ src.Hash = ZeroHash
    /\ src.Number = Rep(255, 8)
    /\ BothSet(pre)
    /\ hn = src

\* C2: encoding a selector whose hash and number are both non-zero returns
\* the both-provided error and writes nothing.
C2_BothRejected ==
    (pc = "encoded" /\ BothSet(src)) => (err = ErrBoth /\ w = <<>>)

C2_Witness == pc = "encoded" /\ BothSet(src) /\ err = ErrBoth

\* C3: when the stream reports a value size that is neither 32 nor at most 8,
\* DecodeRLP returns the invalid-size error.
C3_InvalidSize ==
    (Decoded /\ StreamKind(in).err = "nil"
       /\ StreamKind(in).size # 32 /\ StreamKind(in).size > 8)
    => err = ErrSize

C3_Witness ==
    /\ pc = "decoded"
    /\ StreamKind(in).err = "nil"
    /\ StreamKind(in).size = 9
    /\ err = ErrSize

\* C4: Unpack of an announcement batch of N entries returns N hashes and N
\* numbers, the i-th ones being the hash and the number of entry i.
C4_UnpackHashes ==
    pc = "hashes" =>
      /\ Len(out.hashes) = Len(ann)
      /\ Len(out.numbers) = Len(ann)
      /\ \A i \in 1..Len(ann) :
           out.hashes[i] = ann[i].Hash /\ out.numbers[i] = ann[i].Number

C4_Witness ==
    /\ pc = "hashes"
    /\ Len(ann) = 2
    /\ ann[1].Hash # ann[2].Hash
    /\ ann[1].Number # ann[2].Number
    /\ out.hashes = <<ann[1].Hash, ann[2].Hash>>

NoNilBody == \A i \in 1..Len(bodies) : bodies[i] # NilBody

\* C5: Unpack of a batch of N block bodies returns four sequences of length
\* N, the i-th element of each being the field of entry i, in order.
C5_UnpackBodies ==
    (pc = "bodies" /\ NoNilBody) =>
      /\ ~out.panic
      /\ Len(out.txset) = Len(bodies)
      /\ Len(out.uncleset) = Len(bodies)
      /\ Len(out.etxset) = Len(bodies)
      /\ Len(out.manifest) = Len(bodies)
      /\ \A i \in 1..Len(bodies) :
           /\ out.txset[i] = bodies[i].Transactions
           /\ out.uncleset[i] = bodies[i].Uncles
           /\ out.etxset[i] = bodies[i].ExtTransactions
           /\ out.manifest[i] = bodies[i].SubManifest

C5_Witness ==
    /\ pc = "bodies"
    /\ NoNilBody
    /\ Len(bodies) = 2
    /\ out.etxset = <<<<"etx1">>, <<>>>>
    /\ out.manifest = << <<>>, <<"sub1", "sub2">> >>

\* C6: no two declared message codes are equal, and two payload types with
\* different names never return the same code from Kind().
C6_CodesUnique ==
    /\ \A a, b \in DOMAIN MsgCodes : a # b => MsgCodes[a] # MsgCodes[b]
    /\ \A s, t \in DOMAIN Methods :
         Methods[s].Name # Methods[t].Name => Methods[s].Kind # Methods[t].Kind
    /\ (pc = "described" /\ ret.packet) =>
         \A t \in PacketTypes :
           (HasMethods(t) /\ Describe(t).kind = ret.kind) => Describe(t).name = ret.name

C6_Witness ==
    /\ pc = "described"
    /\ ret.type = "GetBlockPacket"
    /\ ret.packet
    /\ ret.kind = 11

\* C7: every payload type of the catalogue has a Name() and a Kind(). (Stated
\* for the types other than the three that hold bytes encoded beforehand.)
C7_EveryShapeIsPacket ==
    (pc = "described" /\ ret.type \in PacketTypes \ RLPPacketTypes) => ret.packet

\* C8: every eth/66 wrapper has exactly two fields, RequestId first, and a
\* payload wrapped with request id R unwraps to R and an equal payload.
C8_WrapUnwrap ==
    /\ \A t \in DOMAIN WrapperFor :
         /\ WrapperFor[t] \in DOMAIN Wrapper66
         /\ Len(Wrapper66[WrapperFor[t]]) = 2
         /\ Wrapper66[WrapperFor[t]][1] = "RequestId"
    /\ pc = "unwrapped" => (ret.RequestId = ret.sentId /\ ret.payload = ret.sent)

C8_Witness ==
    /\ pc = "unwrapped"
    /\ pkt.type = "GetOnePendingEtxsRollupPacket66"
    /\ ret.RequestId = Rep(255, 8)
    /\ ret.payload = [shape |-> "GetOnePendingEtxsRollupPacket", body |-> "body2"]

\* the declared codes below the count of version v
ValidCodes(v) == { MsgCodes[n] : n \in { m \in DOMAIN MsgCodes : MsgCodes[m] < protocolLengths[v] } }

\* C9: every supported version has a count (19 for 65, 21 for 66), and the
\* declared codes below the count of 66 are a strict superset of those below
\* the count of 65.
C9_VersionSuperset ==
    /\ \A i \in 1..Len(ProtocolVersions) : ProtocolVersions[i] \in DOMAIN protocolLengths
    /\ protocolLengths[ETH65] = 19
    /\ protocolLengths[ETH66] = 21
    /\ ValidCodes(ETH65) \subseteq ValidCodes(ETH66)
    /\ ValidCodes(ETH65) # ValidCodes(ETH66)
    /\ (pc = "looked" /\ ret.version = ETH65 /\ ret.valid) => Lookup(ETH66, ret.code).valid

C9_Witness ==
    /\ pc = "looked"
    /\ ret.version = ETH66
    /\ ret.code = GetOnePendingEtxsRollupMsg
    /\ ret.valid
    /\ ~Lookup(ETH65, ret.code).valid

\* C10: after a DecodeRLP that returned no error, a value of size 32 left
\* number zero and hash equal to the 32 bytes; any other value had size at
\* most 8 and left the zero hash and number equal to the integer read; so
\* hash and number are never both non-zero, whatever the receiver held.
C10_DecodedExclusive ==
    (Decoded /\ err = "nil") =>
      LET k == StreamKind(in) IN
      /\ k.size = 32 => (hn.Number = Zero64 /\ hn.Hash = Content(in, k))
      /\ k.size # 32 =>
           (k.size <= 8 /\ hn.Hash = ZeroHash /\ hn.Number = U64(Content(in, k)))
      /\ ~BothSet(hn)

C10_Witness ==
    /\ pc = "decoded"
    /\ err = "nil"
    /\ BothSet(pre)
    /\ StreamKind(in).size = 32
    /\ hn = [Hash |-> HashFF, Number |-> Zero64]

====
